---- MODULE Spec2Model ----
(***************************************************************************)
(* State-machine model of cogs/utils/paginator.py (class Pages): the       *)
(* reaction-driven paginator.  One session object, three kinds of          *)
(* coroutine (paginate(), the detached first render, the detached help     *)
(* restorations) and the transport (the channel, its messages, the user).  *)
(* Every action runs one coroutine from one await to the next.             *)
(***************************************************************************)
EXTENDS Integers, Sequences, FiniteSets, Bags, TLC

\* ---------------------------------------------------------------- bounds
MaxEntries == 3
MaxPerPage == 2
MaxReverts == 1

\* ------------------------------------------------------------- utilities
Min(a, b) == IF a < b THEN a ELSE b

Max(a, b) == IF a < b THEN b ELSE a

Range(s) == {s[i] : i \in 1..Len(s)}

\* Python's s[a:b] on a list: negative bounds count from the end, both
\* bounds are clamped to the list.
Slice(s, a, b) ==
    LET n  == Len(s)
        lo == IF a < 0 THEN Max(a + n, 0) ELSE Min(a, n)
        hi == IF b < 0 THEN Max(b + n, 0) ELSE Min(b, n)
    IN  SubSeq(s, lo + 1, hi)

\* Python's divmod(a, b) for a >= 0, b > 0.
divmod(a, b) == <<a \div b, a % b>>

\* The entries handed to the session: a prefix of this list.
Items == <<"a", "b", "c", "d", "e", "f", "g", "h">>

\* ------------------------------------------------------- the reply texts
\* A message content is a sequence of characters.  "sup2" stands for the
\* character SUPERSCRIPT TWO, a digit that is not a decimal.
DecimalChars == {"0", "1", "2", "3", "4", "5", "6", "7", "8", "9"}

DigitChars == DecimalChars \cup {"sup2"}

DecimalValue(c) ==
    CASE c = "0" -> 0 [] c = "1" -> 1 [] c = "2" -> 2 [] c = "3" -> 3
      [] c = "4" -> 4 [] c = "5" -> 5 [] c = "6" -> 6 [] c = "7" -> 7
      [] c = "8" -> 8 [] c = "9" -> 9

\* str.isdigit(): at least one character, and every character is a digit.
isdigit(s) == Len(s) > 0 /\ \A i \in 1..Len(s) : s[i] \in DigitChars

\* int(s) is defined on the decimal strings and raises ValueError elsewhere.
IntParses(s) == Len(s) > 0 /\ \A i \in 1..Len(s) : s[i] \in DecimalChars

RECURSIVE int(_)
int(s) ==
    IF Len(s) = 0 THEN 0
    ELSE 10 * int(SubSeq(s, 1, Len(s) - 1)) + DecimalValue(s[Len(s)])

Contents ==
    { <<"0">>, <<"1">>, <<"2">>, <<"0", "2">>, <<"1", "2">>,
      <<"a", "b", "c">>, <<"2", "a">>, <<>>, <<"sup2">> }

\* ------------------------------------------------- the signal/action table
reaction_emojis ==
    << [emoji |-> "U+23EE",  func |-> "first_page"],
       [emoji |-> "U+25C0",  func |-> "previous_page"],
       [emoji |-> "U+25B6",  func |-> "next_page"],
       [emoji |-> "U+23ED",  func |-> "last_page"],
       [emoji |-> "U+1F522", func |-> "numbered_page"],
       [emoji |-> "U+23F9",  func |-> "stop_pages"],
       [emoji |-> "U+2139",  func |-> "show_help"] >>

Emojis == {reaction_emojis[i].emoji : i \in 1..Len(reaction_emojis)} \cup {"U+1F44D"}

Users == {"author", "stranger"}

Messages == {"command", "target", "question", "reply", "timeout_notice", "invalid_notice"}

NoMessage == [author |-> "None", channel |-> "None", content |-> <<>>]

NoEmbed == [description |-> <<>>, footer |-> <<"none", 0, 0, 0>>]

VARIABLES
    entries, per_page, maximum_pages, paginating, permissions,   \* set by __init__
    message, current_page, match,                               \* session fields
    to_delete, msg,                                             \* locals of numbered_page
    pc, exc, sent_embed, addressed, timer,                      \* paginate(): position, exception, call in flight, timeout
    first_pc, first_i,                                          \* detached show_page(1, first=True)
    sleeping, edits,                                            \* detached go_back_to_current_page tasks
    channel, shown, reactions,                                  \* the transport
    stop_requested, timed_out                                   \* history

vars ==
    << entries, per_page, maximum_pages, paginating, permissions, message,
       current_page, match, to_delete, msg, pc, exc, sent_embed,
       first_pc, first_i, sleeping, edits, channel, shown, reactions, stop_requested,
       timed_out, addressed, timer >>

\* ---------------------------------------------------------- Pages.__init__
MaximumPages(n, p) ==
    LET d == divmod(n, p)
    IN  IF d[2] # 0 THEN d[1] + 1 ELSE d[1]

\* paginating with the comparison off by one.
Paginating_inclusive(n, p) == n >= p

Paginating(n, p) == n > p

\* `if not self.permissions.embed_links: raise CannotPaginate(...)`: where
\* the caller is after Pages(...), and the exception it holds.  The check
\* without the test:
Preflight_lenient(perms) == << "constructed", "none" >>

Preflight(perms) ==
    IF perms.embed_links
    THEN << "constructed", "none" >>
    ELSE << "raised", "CannotPaginate" >>

Init ==
    /\ entries \in {SubSeq(Items, 1, n) : n \in 0..MaxEntries}
    /\ per_page \in 1..MaxPerPage
    /\ maximum_pages = MaximumPages(Len(entries), per_page)
    /\ paginating = Paginating(Len(entries), per_page)
    /\ permissions \in [embed_links : BOOLEAN, add_reactions : BOOLEAN,
                        read_message_history : BOOLEAN]
    /\ message = "command"
    /\ current_page = 0
    /\ match = "none"
    /\ to_delete = <<>>
    /\ msg = NoMessage
    /\ pc = Preflight(permissions)[1]
    /\ exc = Preflight(permissions)[2]
    /\ sent_embed = NoEmbed
    /\ first_pc = "none"
    /\ first_i = 0
    /\ sleeping = 0
    /\ edits = EmptyBag
    /\ channel = [m \in Messages |-> IF m = "command" THEN "live" ELSE "unsent"]
    /\ shown = NoEmbed
    /\ reactions = <<>>
    /\ stop_requested = "none"
    /\ timed_out = FALSE
    /\ addressed = "none"
    /\ timer = 0

\* ---------------------------------------------------------- Pages.get_page
\* get_page with the page taken as 0-based.
get_page_zero_based(page) ==
    LET base == page * per_page
    IN  Slice(entries, base, base + per_page)

get_page(page) ==
    LET base == (page - 1) * per_page
    IN  Slice(entries, base, base + per_page)

\* The part of show_page before its branches: the numbered lines and the
\* footer of a page.  A line f'{index}. {entry}' is the pair <<index, entry>>.
PageLines(page) ==
    LET es == get_page(page)
    IN  [i \in 1..Len(es) |-> <<i + (page - 1) * per_page, es[i]>>]

PageFooter(page) == <<"Page", page, maximum_pages, Len(entries)>>

\* The embed show_page builds: `hint` is the first render of a multi-page
\* session, which appends an empty line and the help hint.  self.embed is
\* rebuilt right before each send or edit, which takes its content before
\* suspending: it lives on as the content in flight (sent_embed, edits).
PageEmbed(page, hint) ==
    [description |->
        IF hint
        THEN PageLines(page) \o << <<0, "">>, <<0, "Confused?">> >>
        ELSE PageLines(page),
     footer |-> PageFooter(page)]

HelpEmbed ==
    [description |->
        << <<0, "Welcome">>, <<0, "This interactively">> >>
        \o [i \in 1..Len(reaction_emojis) |-> <<0, reaction_emojis[i].emoji>>],
     footer |-> <<"We were on page", current_page, 0, 0>>]

\* What the loop does when `await self.match()` returns: the `while
\* self.paginating` test, and the registration of the next wait.
LoopTest(p) == IF p THEN "wait" ELSE "done"

\* One tick of the timer is 30 seconds: `timeout=120.0` of the wait of the
\* loop and `timeout=30.0` of the wait of the number prompt, in ticks.
WaitTicks == 4

ReplyTicks == 1

\* The timeout of the number prompt given to the wait of the loop too.
Timeout_short(at) ==
    IF at = "wait" THEN ReplyTicks
    ELSE IF at = "reply_wait" THEN ReplyTicks
    ELSE 0

\* The ticks left to the wait_for that paginate() registers when it
\* arrives at position `at`: each call of wait_for starts its own timeout.
\* The other positions have none.
Timeout(at) ==
    IF at = "wait" THEN WaitTicks
    ELSE IF at = "reply_wait" THEN ReplyTicks
    ELSE 0

\* ----------------------------------------------------------- Pages.paginate
paginate ==
    /\ pc = "constructed"
    /\ first_pc' = "created"
    /\ pc' = LoopTest(paginating)
    /\ timer' = Timeout(pc')
    /\ UNCHANGED << entries, per_page, maximum_pages, paginating, permissions,
                    message, current_page, match, to_delete, msg, exc,
                    sent_embed, first_i, sleeping, edits, channel, shown,
                    reactions, stop_requested, timed_out,
                    addressed >>

\* ------------------------------------- Pages.show_page(1, first=True), detached
\* The test of the loop with only one of the two jump symbols.
Skipped_first_only(i) ==
    maximum_pages = 2 /\ reaction_emojis[i].emoji \in {"U+23EE"}

Skipped(i) ==
    maximum_pages = 2 /\ reaction_emojis[i].emoji \in {"U+23ED", "U+23EE"}

\* The next entry of the table, after entry i, that the loop registers
\* (0: the loop is over).
NextReaction(i) ==
    LET later == {j \in (i + 1)..Len(reaction_emojis) : ~Skipped(j)}
    IN  IF later = {} THEN 0 ELSE CHOOSE j \in later : \A k \in later : j <= k

\* The first render with its permission checks ahead of the single-page
\* send.
first_render_start_checked_first ==
    /\ first_pc = "created"
    /\ current_page' = 1
    /\ IF ~permissions.add_reactions \/ ~permissions.read_message_history
       THEN first_pc' = "raised"
       ELSE IF ~paginating
       THEN first_pc' = "send_once"
       ELSE first_pc' = "send"
    /\ UNCHANGED << entries, per_page, maximum_pages, paginating, permissions,
                    message, match, to_delete, msg, pc, exc, sent_embed, first_i,
                    sleeping, edits, channel, shown, reactions, stop_requested,
                    timed_out, addressed, timer >>

\* From the start of the task to its first await: current_page, the footer,
\* then the single-page send, the permission checks or the first send.
first_render_start ==
    /\ first_pc = "created"
    /\ current_page' = 1
    /\ IF ~paginating
       THEN first_pc' = "send_once"
       ELSE IF ~permissions.add_reactions \/ ~permissions.read_message_history
       THEN first_pc' = "raised"
       ELSE first_pc' = "send"
    /\ UNCHANGED << entries, per_page, maximum_pages, paginating, permissions,
                    message, match, to_delete, msg, pc, exc, sent_embed, first_i,
                    sleeping, edits, channel, shown, reactions, stop_requested,
                    timed_out,
                    addressed, timer >>

\* `return await self.channel.send(embed=self.embed)` of a single-page session.
first_render_sent_once ==
    /\ first_pc = "send_once"
    /\ channel' = [channel EXCEPT !["target"] = "live"]
    /\ shown' = PageEmbed(1, FALSE)
    /\ first_pc' = "done"
    /\ UNCHANGED << entries, per_page, maximum_pages, paginating, permissions,
                    message, current_page, match, to_delete, msg, pc, exc,
                    sent_embed, first_i, sleeping, edits, reactions,
                    stop_requested, timed_out,
                    addressed, timer >>

\* `self.message = await self.channel.send(...)`, then the loop up to its
\* first add_reaction.
first_render_sent ==
    /\ first_pc = "send"
    /\ channel' = [channel EXCEPT !["target"] = "live"]
    /\ shown' = PageEmbed(1, TRUE)
    /\ message' = "target"
    /\ first_i' = NextReaction(0)
    /\ first_pc' = "react"
    /\ UNCHANGED << entries, per_page, maximum_pages, paginating, permissions,
                    current_page, match, to_delete, msg, pc, exc, sent_embed,
                    sleeping, edits, reactions, stop_requested, timed_out,
                    addressed, timer >>

\* One `await self.message.add_reaction(reaction)` returns (or raises
\* NotFound: the message is gone), then the loop up to the next one.
first_render_add_reaction ==
    /\ first_pc = "react"
    /\ IF channel["target"] = "live"
       THEN /\ reactions' = Append(reactions, reaction_emojis[first_i].emoji)
            /\ first_i' = NextReaction(first_i)
            /\ first_pc' = IF NextReaction(first_i) = 0 THEN "done" ELSE "react"
       ELSE /\ first_pc' = "raised"
            /\ UNCHANGED << reactions, first_i >>
    /\ UNCHANGED << entries, per_page, maximum_pages, paginating, permissions,
                    message, current_page, match, to_delete, msg, pc, exc,
                    sent_embed, sleeping, edits, channel, shown,
                    stop_requested, timed_out,
                    addressed, timer >>

\* ------------------------------------------------------ Pages.react_check
\* A reaction is [emoji, message]; the user is one of Users or "None".
\* The check looking for the emoji among the reactions it registered:
react_check_registered(reaction, user) ==
    /\ ~(user = "None" \/ user # "author")
    /\ ~(reaction.message # message)
    /\ \E i \in 1..Len(reactions) : reaction.emoji = reactions[i]

react_check(reaction, user) ==
    /\ ~(user = "None" \/ user # "author")
    /\ ~(reaction.message # message)
    /\ \E i \in 1..Len(reaction_emojis) : reaction.emoji = reaction_emojis[i].emoji

\* The func react_check stores in self.match: the first entry of the table
\* with the reaction's emoji.
Matched(reaction) ==
    LET hits == {i \in 1..Len(reaction_emojis) : reaction.emoji = reaction_emojis[i].emoji}
    IN  reaction_emojis[CHOOSE i \in hits : \A j \in hits : i <= j].func

\* The detached restorations that have not finished yet.
Reverts == sleeping + BagCardinality(edits)

\* The messages a number prompt sends or receives.  The channel follows
\* those of the latest prompt, until the loop takes its next signal.
PromptMessages == {"question", "reply", "timeout_notice", "invalid_notice"}

\* The listener of wait_for staying registered after its match: a second
\* event is checked before the action of the first has started.
reaction_add_while_dispatching ==
    /\ pc \in {"wait", "remove"}
    /\ first_pc # "created"
    /\ \E reaction \in [emoji : Emojis, message : {m \in Messages : channel[m] = "live"}],
          user \in Users \cup {"None"} :
          /\ react_check(reaction, user)
          /\ Matched(reaction) = "show_help" => Reverts < MaxReverts
          /\ match' = Matched(reaction)
    /\ channel' = [m \in Messages |->
                     IF m \in PromptMessages THEN "unsent" ELSE channel[m]]
    /\ pc' = "remove"
    /\ timer' = Timeout(pc')
    /\ UNCHANGED << entries, per_page, maximum_pages, paginating, permissions,
                    message, current_page, to_delete, msg, exc, sent_embed,
                    first_pc, first_i, sleeping, edits, shown,
                    reactions, stop_requested, timed_out,
                    addressed >>

\* A 'reaction_add' event ends the wait of the loop: react_check accepts it
\* and `await self.message.remove_reaction(...)` is issued.
reaction_add ==
    /\ pc = "wait"
    /\ first_pc # "created"
    /\ \E reaction \in [emoji : Emojis, message : {m \in Messages : channel[m] = "live"}],
          user \in Users \cup {"None"} :
          /\ react_check(reaction, user)
          /\ Matched(reaction) = "show_help" => Reverts < MaxReverts
          /\ match' = Matched(reaction)
    /\ channel' = [m \in Messages |->
                     IF m \in PromptMessages THEN "unsent" ELSE channel[m]]
    /\ pc' = "remove"
    /\ timer' = Timeout(pc')
    /\ UNCHANGED << entries, per_page, maximum_pages, paginating, permissions,
                    message, current_page, to_delete, msg, exc, sent_embed,
                    first_pc, first_i, sleeping, edits, shown,
                    reactions, stop_requested, timed_out,
                    addressed >>

\* asyncio.TimeoutError from the wait of the loop: paginating is cleared and
\* `await self.message.clear_reactions()` is issued.
wait_timeout ==
    /\ pc = "wait"
    /\ timer = 0
    /\ first_pc # "created"
    /\ paginating' = FALSE
    /\ timed_out' = TRUE
    /\ pc' = "clear"
    /\ addressed' = message
    /\ timer' = Timeout(pc')
    /\ UNCHANGED << entries, per_page, maximum_pages, permissions, message,
                    current_page, match, to_delete, msg, exc, sent_embed,
                    first_pc, first_i, sleeping, edits, channel, shown,
                    reactions, stop_requested >>

\* The timeout branch without its try: a failing clear_reactions leaves
\* paginate().
reactions_cleared_unguarded ==
    /\ pc = "clear"
    /\ \E ok \in BOOLEAN :
          IF ok /\ channel[addressed] = "live"
          THEN /\ reactions' = IF addressed = "target" THEN <<>> ELSE reactions
               /\ pc' = "done"
               /\ exc' = exc
          ELSE /\ pc' = "raised"
               /\ exc' = "Forbidden"
               /\ reactions' = reactions
    /\ addressed' = "none"
    /\ timer' = Timeout(pc')
    /\ UNCHANGED << entries, per_page, maximum_pages, paginating, permissions,
                    message, current_page, match, to_delete, msg,
                    sent_embed, first_pc, first_i, sleeping, edits, channel,
                    shown, stop_requested, timed_out >>

\* clear_reactions returns or raises; `except: pass` and `finally: break`
\* leave the loop either way.
reactions_cleared ==
    /\ pc = "clear"
    /\ \E ok \in BOOLEAN :
          reactions' = IF ok /\ addressed = "target" /\ channel["target"] = "live"
                       THEN <<>> ELSE reactions
    /\ pc' = "done"
    /\ addressed' = "none"
    /\ timer' = Timeout(pc')
    /\ UNCHANGED << entries, per_page, maximum_pages, paginating, permissions,
                    message, current_page, match, to_delete, msg, exc,
                    sent_embed, first_pc, first_i, sleeping, edits, channel,
                    shown, stop_requested, timed_out >>

\* ------------------------------------------- Pages.show_page(page), not first
\* Up to `await self.message.edit(embed=self.embed)`; `at` is the position
\* of the caller while the edit is in flight.  The callers run it only
\* while paginating is set.  The edit is issued on the message self.message
\* is at this moment.
show_page(page, at) ==
    /\ paginating
    /\ current_page' = page
    /\ sent_embed' = PageEmbed(page, FALSE)
    /\ addressed' = message
    /\ pc' = at

\* The outcome of the edit in flight: only a live message the bot sent can
\* be edited.
EditError ==
    IF addressed # "target" THEN "Forbidden"
    ELSE IF channel["target"] # "live" THEN "NotFound"
    ELSE "none"

\* checked_show_page without its upper bound.
checked_show_page_unbounded(page) ==
    IF page # 0
    THEN show_page(page, "edit")
    ELSE /\ pc' = LoopTest(paginating)
         /\ UNCHANGED << current_page, sent_embed, addressed >>

checked_show_page(page) ==
    IF page # 0 /\ page <= maximum_pages
    THEN show_page(page, "edit")
    ELSE /\ pc' = LoopTest(paginating)
         /\ UNCHANGED << current_page, sent_embed, addressed >>

\* Each navigation action starts when remove_reaction has returned or
\* raised (`except: pass`) and runs to its first await.
first_page ==
    /\ pc = "remove" /\ match = "first_page"
    /\ show_page(1, "edit")
    /\ timer' = Timeout(pc')
    /\ UNCHANGED << entries, per_page, maximum_pages, paginating, permissions,
                    message, match, to_delete, msg, exc, first_pc, first_i, sleeping,
                    edits, channel, shown, reactions, stop_requested, timed_out >>

last_page ==
    /\ pc = "remove" /\ match = "last_page"
    /\ show_page(maximum_pages, "edit")
    /\ timer' = Timeout(pc')
    /\ UNCHANGED << entries, per_page, maximum_pages, paginating, permissions,
                    message, match, to_delete, msg, exc, first_pc, first_i, sleeping,
                    edits, channel, shown, reactions, stop_requested, timed_out >>

next_page ==
    /\ pc = "remove" /\ match = "next_page"
    /\ checked_show_page(current_page + 1)
    /\ timer' = Timeout(pc')
    /\ UNCHANGED << entries, per_page, maximum_pages, paginating, permissions,
                    message, match, to_delete, msg, exc, first_pc, first_i, sleeping,
                    edits, channel, shown, reactions, stop_requested, timed_out >>

previous_page ==
    /\ pc = "remove" /\ match = "previous_page"
    /\ checked_show_page(current_page - 1)
    /\ timer' = Timeout(pc')
    /\ UNCHANGED << entries, per_page, maximum_pages, paginating, permissions,
                    message, match, to_delete, msg, exc, first_pc, first_i, sleeping,
                    edits, channel, shown, reactions, stop_requested, timed_out >>

\* `await self.message.edit(...)` of show_page returns to the loop, or its
\* exception leaves paginate().
page_edited ==
    /\ pc = "edit"
    /\ IF EditError = "none"
       THEN /\ shown' = sent_embed
            /\ pc' = LoopTest(paginating)
            /\ exc' = exc
       ELSE /\ pc' = "raised"
            /\ exc' = EditError
            /\ shown' = shown
    /\ sent_embed' = NoEmbed
    /\ addressed' = "none"
    /\ timer' = Timeout(pc')
    /\ UNCHANGED << entries, per_page, maximum_pages, paginating, permissions,
                    message, current_page, match, to_delete, msg,
                    first_pc, first_i, sleeping, edits, channel, reactions,
                    stop_requested, timed_out >>

\* --------------------------------------------------------- Pages.stop_pages
\* Up to `await self.message.delete()`.
stop_pages ==
    /\ pc = "remove" /\ match = "stop_pages"
    /\ stop_requested' = message
    /\ pc' = "delete"
    /\ addressed' = message
    /\ timer' = Timeout(pc')
    /\ UNCHANGED << entries, per_page, maximum_pages, paginating, permissions,
                    message, current_page, match, to_delete, msg, exc,
                    sent_embed, first_pc, first_i, sleeping, edits, channel,
                    shown, reactions, timed_out >>

\* delete() returns and paginating is cleared, or delete() raises and the
\* exception leaves stop_pages and paginate(): NotFound when the message is
\* gone, Forbidden when it is the user's and the bot may not delete it.
message_deleted ==
    /\ pc = "delete"
    /\ \E allowed \in BOOLEAN :
          LET error == IF channel[addressed] # "live" THEN "NotFound"
                       ELSE IF addressed # "target" /\ ~allowed THEN "Forbidden"
                       ELSE "none"
          IN  IF error = "none"
              THEN /\ channel' = [channel EXCEPT ![addressed] = "deleted"]
                   /\ paginating' = FALSE
                   /\ pc' = LoopTest(FALSE)
                   /\ exc' = exc
              ELSE /\ pc' = "raised"
                   /\ exc' = error
                   /\ UNCHANGED << channel, paginating >>
    /\ addressed' = "none"
    /\ timer' = Timeout(pc')
    /\ UNCHANGED << entries, per_page, maximum_pages, permissions, message,
                    current_page, match, to_delete, msg, sent_embed, first_pc,
                    first_i, sleeping, edits, shown, reactions, stop_requested,
                    timed_out >>

\* ---------------------------------------------------------- Pages.show_help
\* Up to `await self.message.edit(embed=self.embed)`.
show_help ==
    /\ pc = "remove" /\ match = "show_help"
    /\ sent_embed' = HelpEmbed
    /\ pc' = "help_edit"
    /\ addressed' = message
    /\ timer' = Timeout(pc')
    /\ UNCHANGED << entries, per_page, maximum_pages, paginating, permissions,
                    message, current_page, match, to_delete, msg, exc, first_pc,
                    first_i, sleeping, edits, channel, shown, reactions,
                    stop_requested, timed_out >>

\* The edit returns and go_back_to_current_page is created (it starts by
\* sleeping), or the edit raises out of paginate().
help_edited ==
    /\ pc = "help_edit"
    /\ IF EditError = "none"
       THEN /\ shown' = sent_embed
            /\ sleeping' = sleeping + 1
            /\ pc' = LoopTest(paginating)
            /\ exc' = exc
       ELSE /\ pc' = "raised"
            /\ exc' = EditError
            /\ UNCHANGED << shown, sleeping >>
    /\ sent_embed' = NoEmbed
    /\ addressed' = "none"
    /\ timer' = Timeout(pc')
    /\ UNCHANGED << entries, per_page, maximum_pages, paginating, permissions,
                    message, current_page, match, to_delete, msg,
                    first_pc, first_i, edits, channel, reactions,
                    stop_requested, timed_out >>

\* go_back_to_current_page after its sleep: show_current_page, which runs
\* show_page(self.current_page) up to its edit only while paginating.
go_back_to_current_page ==
    /\ sleeping > 0
    /\ sleeping' = sleeping - 1
    /\ IF paginating
       THEN /\ current_page' = current_page
            /\ edits' = edits (+) SetToBag({PageEmbed(current_page, FALSE)})
       ELSE UNCHANGED << current_page, edits >>
    /\ UNCHANGED << entries, per_page, maximum_pages, paginating, permissions,
                    message, match, to_delete, msg, pc, exc, sent_embed, first_pc,
                    first_i, channel, shown, reactions, stop_requested,
                    timed_out,
                    addressed, timer >>

\* The edit of a restoration returns, or raises inside the detached task.
restoration_edited ==
    /\ \E e \in BagToSet(edits) :
          /\ edits' = edits (-) SetToBag({e})
          /\ shown' = IF channel["target"] = "live" THEN e ELSE shown
    /\ UNCHANGED << entries, per_page, maximum_pages, paginating, permissions,
                    message, current_page, match, to_delete, msg, pc, exc,
                    sent_embed, first_pc, first_i, sleeping, channel, reactions,
                    stop_requested, timed_out,
                    addressed, timer >>

\* ------------------------------------------------------- Pages.numbered_page
\* Up to `await self.channel.send('What page do you want to go to?')`.
numbered_page ==
    /\ pc = "remove" /\ match = "numbered_page"
    /\ to_delete' = <<>>
    /\ pc' = "ask"
    /\ UNCHANGED msg
    /\ timer' = Timeout(pc')
    /\ UNCHANGED << entries, per_page, maximum_pages, paginating, permissions,
                    message, current_page, match, exc, sent_embed,
                    first_pc, first_i, sleeping, edits, channel, shown,
                    reactions, stop_requested, timed_out,
                    addressed >>

\* The question is in the channel and in to_delete; wait_for('message') is
\* registered.
question_sent ==
    /\ pc = "ask"
    /\ to_delete' = Append(to_delete, "question")
    /\ channel' = [m \in Messages |->
                     IF m = "question" THEN "live" ELSE channel[m]]
    /\ pc' = "reply_wait"
    /\ UNCHANGED msg
    /\ timer' = Timeout(pc')
    /\ UNCHANGED << entries, per_page, maximum_pages, paginating, permissions,
                    message, current_page, match, exc, sent_embed,
                    first_pc, first_i, sleeping, edits, shown, reactions,
                    stop_requested, timed_out,
                    addressed >>

\* A posted message is [author, channel, content].
message_check(m) ==
    /\ m.author = "author"
    /\ "here" = m.channel
    /\ isdigit(m.content)

\* A 'message' event that message_check accepts (it is msg, and "reply" in
\* the channel): the `else` branch of the try, up to its first await (the
\* edit of show_page or the send of the invalid-page notice); int() raises
\* ValueError out of paginate().
message_reply ==
    /\ pc = "reply_wait"
    /\ \E m \in [author : Users, channel : {"here", "elsewhere"}, content : Contents] :
          /\ message_check(m)
          /\ msg' = m
          /\ channel' = [channel EXCEPT !["reply"] = "live"]
          /\ IF ~IntParses(m.content)
             THEN /\ pc' = "raised"
                  /\ exc' = "ValueError"
                  /\ UNCHANGED << to_delete, current_page, sent_embed, addressed >>
             ELSE LET page == int(m.content)
                  IN  /\ to_delete' = Append(to_delete, "reply")
                      /\ exc' = exc
                      /\ IF page # 0 /\ page <= maximum_pages
                         THEN show_page(page, "prompt_edit")
                         ELSE /\ pc' = "invalid_send"
                              /\ UNCHANGED << current_page, sent_embed, addressed >>
    /\ timer' = Timeout(pc')
    /\ UNCHANGED << entries, per_page, maximum_pages, paginating, permissions,
                    message, match, first_pc, first_i, sleeping, edits, shown,
                    reactions, stop_requested, timed_out >>

\* asyncio.TimeoutError from wait_for('message'): up to the send of the notice.
reply_timeout ==
    /\ pc = "reply_wait"
    /\ timer = 0
    /\ pc' = "timeout_send"
    /\ timer' = Timeout(pc')
    /\ UNCHANGED << entries, per_page, maximum_pages, paginating, permissions,
                    message, current_page, match, to_delete, msg, exc,
                    sent_embed, first_pc, first_i, sleeping, edits, channel,
                    shown, reactions, stop_requested, timed_out,
                    addressed >>

\* The timeout branch sending its notice without keeping it in to_delete.
timeout_notice_sent_untracked ==
    /\ pc = "timeout_send"
    /\ channel' = [channel EXCEPT !["timeout_notice"] = "live"]
    /\ pc' = "timeout_sleep"
    /\ timer' = Timeout(pc')
    /\ UNCHANGED << entries, per_page, maximum_pages, paginating, permissions,
                    message, current_page, match, to_delete, msg, exc,
                    sent_embed, first_pc, first_i, sleeping, edits, shown,
                    reactions, stop_requested, timed_out,
                    addressed >>

\* 'Took too long.' is sent and appended; asyncio.sleep(5) starts.
timeout_notice_sent ==
    /\ pc = "timeout_send"
    /\ to_delete' = Append(to_delete, "timeout_notice")
    /\ channel' = [channel EXCEPT !["timeout_notice"] = "live"]
    /\ pc' = "timeout_sleep"
    /\ UNCHANGED msg
    /\ timer' = Timeout(pc')
    /\ UNCHANGED << entries, per_page, maximum_pages, paginating, permissions,
                    message, current_page, match, exc, sent_embed,
                    first_pc, first_i, sleeping, edits, shown, reactions,
                    stop_requested, timed_out,
                    addressed >>

\* 'Invalid page given.' is sent and appended; asyncio.sleep(5) starts.
invalid_notice_sent ==
    /\ pc = "invalid_send"
    /\ to_delete' = Append(to_delete, "invalid_notice")
    /\ channel' = [channel EXCEPT !["invalid_notice"] = "live"]
    /\ pc' = "invalid_sleep"
    /\ UNCHANGED msg
    /\ timer' = Timeout(pc')
    /\ UNCHANGED << entries, per_page, maximum_pages, paginating, permissions,
                    message, current_page, match, exc, sent_embed,
                    first_pc, first_i, sleeping, edits, shown, reactions,
                    stop_requested, timed_out,
                    addressed >>

\* The edit of show_page returns to numbered_page, or raises out of it and
\* out of paginate(); on return delete_messages(to_delete) is issued.
prompt_page_edited ==
    /\ pc = "prompt_edit"
    /\ IF EditError = "none"
       THEN /\ shown' = sent_embed
            /\ pc' = "cleanup"
            /\ exc' = exc
       ELSE /\ pc' = "raised"
            /\ exc' = EditError
            /\ shown' = shown
    /\ sent_embed' = NoEmbed
    /\ addressed' = "none"
    /\ timer' = Timeout(pc')
    /\ UNCHANGED << entries, per_page, maximum_pages, paginating, permissions,
                    message, current_page, match, to_delete, msg,
                    first_pc, first_i, sleeping, edits, channel, reactions,
                    stop_requested, timed_out >>

\* asyncio.sleep(5) is over: delete_messages(to_delete) is issued.
notice_slept ==
    /\ pc \in {"timeout_sleep", "invalid_sleep"}
    /\ pc' = "cleanup"
    /\ timer' = Timeout(pc')
    /\ UNCHANGED << entries, per_page, maximum_pages, paginating, permissions,
                    message, current_page, match, to_delete, msg, exc,
                    sent_embed, first_pc, first_i, sleeping, edits, channel,
                    shown, reactions, stop_requested, timed_out,
                    addressed >>

\* delete_messages returns or raises (`except Exception: pass`); the
\* prompt returns to the loop and its locals are gone.
messages_deleted ==
    /\ pc = "cleanup"
    /\ \E ok \in BOOLEAN :
          channel' = IF ok
                     THEN [m \in Messages |->
                             IF m \in Range(to_delete) /\ channel[m] = "live"
                             THEN "deleted" ELSE channel[m]]
                     ELSE channel
    /\ pc' = LoopTest(paginating)
    /\ to_delete' = <<>>
    /\ msg' = NoMessage
    /\ timer' = Timeout(pc')
    /\ UNCHANGED << entries, per_page, maximum_pages, paginating, permissions,
                    message, current_page, match, exc, sent_embed,
                    first_pc, first_i, sleeping, edits, shown, reactions,
                    stop_requested, timed_out,
                    addressed >>

\* ------------------------------------------------------------- the transport
\* Somebody else deletes the render target.
target_deleted_externally ==
    /\ channel["target"] = "live"
    /\ channel' = [channel EXCEPT !["target"] = "gone"]
    /\ UNCHANGED << entries, per_page, maximum_pages, paginating, permissions,
                    message, current_page, match, to_delete, msg, pc, exc,
                    sent_embed, first_pc, first_i, sleeping, edits, shown,
                    reactions, stop_requested, timed_out,
                    addressed, timer >>

\* ------------------------------------------------------------------- time
\* 30 seconds pass while a wait_for of paginate() is pending.  A timeout
\* that is due fires before more time passes.  The sleeps (5 s of the
\* prompt, 60 s of a restoration) and the calls of the transport are not on
\* the timer: they end at any time, and the edits of different tasks
\* complete in any order.
tick ==
    /\ timer > 0
    /\ timer' = timer - 1
    /\ UNCHANGED << entries, per_page, maximum_pages, paginating, permissions,
                    message, current_page, match, to_delete, msg, pc, exc,
                    sent_embed, first_pc, first_i, sleeping, edits, channel,
                    shown, reactions, stop_requested, timed_out, addressed >>

Next ==
    \/ tick
    \/ paginate
    \/ first_render_start
    \/ first_render_sent_once
    \/ first_render_sent
    \/ first_render_add_reaction
    \/ reaction_add
    \/ wait_timeout
    \/ reactions_cleared
    \/ first_page
    \/ last_page
    \/ next_page
    \/ previous_page
    \/ page_edited
    \/ stop_pages
    \/ message_deleted
    \/ show_help
    \/ help_edited
    \/ go_back_to_current_page
    \/ restoration_edited
    \/ numbered_page
    \/ question_sent
    \/ message_reply
    \/ reply_timeout
    \/ timeout_notice_sent
    \/ invalid_notice_sent
    \/ prompt_page_edited
    \/ notice_slept
    \/ messages_deleted
    \/ target_deleted_externally

Spec == Init /\ [][Next]_vars

\* ===================================================================== claims
\* C1: in a multi-page session, once the first render has set it,
\* current_page is always within 1..maximum_pages, whatever navigation
\* actions, stop and restorations have run; and next_page on the last page,
\* like previous_page on page 1, returns to the wait of the loop with
\* current_page, the displayed content and the edits in flight
\* unchanged.
PageStaysInRange ==
    /\ [](Len(entries) > per_page /\ first_pc \notin {"none", "created"}
            => current_page \in 1..maximum_pages)
    /\ [][ ( /\ pc = "remove" /\ pc' # "remove"
             /\ \/ match = "next_page" /\ current_page = maximum_pages
                \/ match = "previous_page" /\ current_page = 1 )
           => /\ current_page' = current_page
              /\ pc' = "wait"
              /\ UNCHANGED << sent_embed, shown, edits >> ]_vars

\* previous_page on page 1 of three pages has returned to the wait and the
\* render target still shows the first render.
PreviousOnFirstPageIgnored ==
    /\ maximum_pages = 3
    /\ pc = "wait" /\ match = "previous_page"
    /\ current_page = 1
    /\ message = "target" /\ channel["target"] = "live"
    /\ shown = PageEmbed(1, TRUE)

\* C2: maximum_pages is the ceiling of len(entries)/per_page, the pages
\* get_page(1), ..., get_page(maximum_pages) concatenated in order are
\* entries (no gap, no overlap: the entries are distinct), and get_page
\* beyond maximum_pages is empty.
PagesPartitionEntries ==
    LET n == Len(entries)
        ceiling == CHOOSE k \in 0..n : k * per_page >= n /\ (k - 1) * per_page < n
        upto[k \in 0..maximum_pages] ==
            IF k = 0 THEN <<>> ELSE upto[k - 1] \o get_page(k)
    IN  /\ maximum_pages = ceiling
        /\ upto[maximum_pages] = entries
        /\ \A k \in (maximum_pages + 1)..(maximum_pages + 2) : get_page(k) = <<>>

\* The last page, shorter than per_page, is displayed on the render target.
ShortLastPageShown ==
    /\ maximum_pages >= 2
    /\ Len(get_page(maximum_pages)) \in 1..(per_page - 1)
    /\ current_page = maximum_pages
    /\ channel["target"] = "live"
    /\ shown = PageEmbed(maximum_pages, FALSE)

\* C3: once stop has requested the deletion of the render target, no edit
\* of the render target is issued any more, neither by a restoration that
\* fires while the deletion is awaited nor by the loop; and when stop has
\* returned, paginating is false.
StopSilencesRestoration ==
    /\ [](stop_requested = "target" /\ pc = "done" => ~paginating)
    /\ [][ stop_requested = "target"
           => /\ BagCardinality(edits') <= BagCardinality(edits)
              /\ pc' \notin {"edit", "help_edit", "prompt_edit"} ]_vars

\* C4: in a multi-page session that may render rich content but lacks the
\* add-reactions or the read-history permission, once the first render has
\* raised CannotPaginate, paginate() has raised it to its caller: it is
\* not waiting for a signal nor running an action, and no render target
\* was sent.
PermissionErrorReachesCaller ==
    ( /\ Len(entries) > per_page
      /\ permissions.embed_links
      /\ ~permissions.add_reactions \/ ~permissions.read_message_history
      /\ first_pc = "raised" )
    => /\ pc = "raised" /\ exc = "CannotPaginate"
       /\ channel["target"] = "unsent"

\* C5: paginate() never ends by raising the NotFound of an edit or of the
\* deletion of a render target that is gone.
NotFoundNeverEscapes == ~(pc = "raised" /\ exc = "NotFound")

\* C6: the timeout of the wait of the loop clears paginating and goes to
\* the attempt to clear the reactions; after it the session never raises,
\* never leaves the attempt except by returning from paginate(), whether
\* the clearing fails or not, dispatches no action and deletes neither the
\* render target nor the command message.
InactivityTimeoutEndsSession ==
    /\ [](timed_out => /\ ~paginating
                       /\ pc \in {"clear", "done"}
                       /\ exc = "none"
                       /\ channel["target"] # "deleted"
                       /\ channel["command"] # "deleted")
    /\ [][~timed_out /\ timed_out' => pc = "wait" /\ pc' = "clear"]_vars
    /\ [][timed_out => /\ timed_out'
                       /\ pc' # pc => pc = "clear" /\ pc' = "done"]_vars

\* paginate() has returned after a timeout although every registered
\* reaction is still on the live render target.
TimedOutWithReactionsLeft ==
    /\ timed_out /\ pc = "done" /\ exc = "none"
    /\ message = "target" /\ channel["target"] = "live"
    /\ first_pc = "done" /\ Len(reactions) = Len(reaction_emojis)

\* C7: the reply that ends the wait of the number prompt is an integer
\* literal; when it is 0 or above maximum_pages the invalid-page notice is
\* sent and current_page and the render target are unchanged; when it is a
\* page p of 1..maximum_pages, current_page becomes p and page p is sent to
\* the render target.
PromptAcceptsOnlyPageNumbers ==
    [][ pc = "reply_wait" /\ pc' \notin {"reply_wait", "timeout_send"}
        => LET c == msg'.content
           IN  /\ IntParses(c)
               /\ (int(c) = 0 \/ int(c) > maximum_pages)
                    => /\ pc' = "invalid_send"
                       /\ UNCHANGED << current_page, shown, sent_embed >>
               /\ int(c) \in 1..maximum_pages
                    => /\ pc' = "prompt_edit"
                       /\ current_page' = int(c)
                       /\ sent_embed' = PageEmbed(int(c), FALSE) ]_vars

\* C8: delete_messages is called with the question and the timeout notice
\* after a timeout, with the question and the reply after a reply in
\* range, with the question, the reply and the invalid-page notice after a
\* reply out of range; the call changes nothing but these messages, which
\* it deletes all or (when it fails) not at all, and the prompt then
\* returns to the loop without an exception.
PromptDeletesItsOwnMessages ==
    /\ [](pc = "cleanup" => Range(to_delete) \cap {"target", "command"} = {})
    /\ [][ /\ pc = "timeout_sleep" /\ pc' = "cleanup"
              => to_delete' = <<"question", "timeout_notice">>
           /\ pc = "prompt_edit" /\ pc' = "cleanup"
              => to_delete' = <<"question", "reply">>
           /\ pc = "invalid_sleep" /\ pc' = "cleanup"
              => to_delete' = <<"question", "reply", "invalid_notice">>
           /\ pc = "cleanup" /\ pc' # "cleanup"
              => /\ pc' = "wait" /\ exc' = "none"
                 /\ \A m \in Messages \ Range(to_delete) : channel'[m] = channel[m]
                 /\ \/ channel' = channel
                    \/ \A m \in Range(to_delete) : channel'[m] = "deleted" ]_vars

\* A prompt answered out of range has deleted its three messages and is
\* back in the wait of the loop; the render target and the command are
\* still there.
OutOfRangePromptCleaned ==
    /\ pc = "wait" /\ match = "numbered_page"
    /\ \A m \in {"question", "reply", "invalid_notice"} : channel[m] = "deleted"
    /\ channel["timeout_notice"] = "unsent"
    /\ channel["target"] = "live" /\ channel["command"] = "live"

\* C9, as stated: paginating is len(entries) > per_page in every state
\* (here: of a session that holds every permission and whose first render
\* has completed).
PaginatingNeverChanges ==
    ( /\ permissions.add_reactions /\ permissions.read_message_history
      /\ first_pc = "done" )
    => paginating = (Len(entries) > per_page)

\* C9, amended: paginating is len(entries) > per_page until the inactivity
\* timeout fires or stop has deleted its message; these two clear it, and
\* nothing else changes it.
PaginatingUntilTimeoutOrStop ==
    /\ [](paginating = ( /\ Len(entries) > per_page
                         /\ ~timed_out
                         /\ channel["target"] # "deleted"
                         /\ channel["command"] # "deleted" ))
    /\ [][ paginating' # paginating
           => /\ ~paginating'
              /\ \/ pc = "wait" /\ pc' = "clear"
                 \/ pc = "delete" /\ pc' = "done" ]_vars

\* stop has deleted the render target of a multi-page session and
\* paginate() has returned with paginating cleared.
StoppedMultiPageSession ==
    /\ Len(entries) > per_page
    /\ stop_requested = "target" /\ channel["target"] = "deleted"
    /\ pc = "done" /\ ~paginating

\* C10: a constructed session has at least one page, and the page its
\* first render shows is one of its pages.
AtLeastOnePage ==
    permissions.embed_links
    => /\ maximum_pages >= 1
       /\ first_pc \notin {"none", "created"} => current_page \in 1..maximum_pages

\* C11: the reactions the session has put on the render target are the
\* symbols of the table in table order, without the first-page and the
\* last-page symbol when maximum_pages is 2: the first ones of them while
\* the registration runs, all of them (five with two pages, seven with
\* more) once it is over; after a timeout has cleared the reactions, what
\* a registration that still runs adds is a run of consecutive ones.
RegisteredInTableOrder ==
    LET expected ==
            IF maximum_pages = 2
            THEN << "U+25C0", "U+25B6", "U+1F522", "U+23F9", "U+2139" >>
            ELSE << "U+23EE", "U+25C0", "U+25B6", "U+23ED", "U+1F522",
                    "U+23F9", "U+2139" >>
    IN  /\ \E a \in 1..(Len(expected) + 1) :
              /\ a + Len(reactions) - 1 <= Len(expected)
              /\ reactions = SubSeq(expected, a, a + Len(reactions) - 1)
        /\ ~timed_out /\ Len(reactions) <= Len(expected)
              => reactions = SubSeq(expected, 1, Len(reactions))
        /\ ~timed_out /\ first_pc = "done" /\ Len(entries) > per_page
              => reactions = expected

\* The registration of a two-page session is over: five reactions, and
\* neither jump symbol among them.
TwoPagesFiveReactions ==
    /\ maximum_pages = 2
    /\ first_pc = "done" /\ ~timed_out
    /\ Len(reactions) = 5
    /\ channel["target"] = "live"

\* C12: a session whose entries fit one page sends one message, the page,
\* and nothing else: paginate() returns without waiting, no reaction is
\* registered, no signal matched, no action run, no edit issued, no
\* prompt message sent and no timer started; and the first render never
\* raises, whatever the add-reactions and read-history permissions are.
SinglePageSendsOnce ==
    ( Len(entries) <= per_page /\ permissions.embed_links )
    => /\ pc \in {"constructed", "done"} /\ exc = "none"
       /\ first_pc \in {"none", "created", "send_once", "done"}
       /\ (first_pc = "done") = (channel["target"] # "unsent")
       /\ shown = IF first_pc = "done" THEN PageEmbed(1, FALSE) ELSE NoEmbed
       /\ message = "command" /\ channel["command"] = "live"
       /\ \A m \in PromptMessages : channel[m] = "unsent"
       /\ reactions = <<>> /\ match = "none"
       /\ sent_embed = NoEmbed /\ edits = EmptyBag /\ sleeping = 0
       /\ addressed = "none" /\ timer = 0

\* The one message of a single-page session is in the channel and
\* paginate() has returned, although the bot may neither add reactions nor
\* read the history.
SinglePageWithoutReactionPermissions ==
    /\ Len(entries) \in 1..per_page
    /\ permissions.embed_links
    /\ ~permissions.add_reactions /\ ~permissions.read_message_history
    /\ pc = "done" /\ first_pc = "done"
    /\ channel["target"] = "live" /\ shown = PageEmbed(1, FALSE)

\* C13: without the embed-links permission Pages(...) raises
\* CannotPaginate, in a single-page session as in a multi-page one:
\* paginate() is never started, no message is sent and no reaction
\* registered.
ConstructionFailsWithoutEmbedLinks ==
    ~permissions.embed_links
    => /\ pc = "raised" /\ exc = "CannotPaginate"
       /\ first_pc = "none"
       /\ \A m \in Messages \ {"command"} : channel[m] = "unsent"
       /\ shown = NoEmbed /\ reactions = <<>>
       /\ current_page = 0 /\ match = "none"

\* A multi-page session that holds the two other permissions has failed
\* at construction.
ConstructionFailed ==
    /\ ~permissions.embed_links
    /\ permissions.add_reactions /\ permissions.read_message_history
    /\ pc = "raised" /\ exc = "CannotPaginate"
    /\ Len(entries) > per_page

\* C14, as stated: while the loop waits on a render target whose
\* registration is complete, react_check accepts a reaction exactly when
\* its user is the author, its message is the render target and its emoji
\* is one of the reactions registered on the render target; with two
\* pages the first-page and last-page actions are never dispatched.
OnlyRegisteredSymbolsMatch ==
    /\ []( ( /\ pc = "wait" /\ message = "target"
             /\ first_pc = "done" /\ channel["target"] = "live" )
           => \A reaction \in [emoji : Emojis, message : Messages],
                 user \in Users \cup {"None"} :
                 react_check(reaction, user)
                   <=> /\ user = "author"
                       /\ reaction.message = "target"
                       /\ \E i \in 1..Len(reactions) : reaction.emoji = reactions[i] )
    /\ [][ ( /\ pc = "wait" /\ pc' = "remove"
             /\ message = "target" /\ first_pc = "done"
             /\ maximum_pages = 2 )
           => match' \notin {"first_page", "last_page"} ]_vars

\* C14, amended: once the render target is self.message, react_check
\* accepts a reaction exactly when its user is the author, its message is
\* the render target and its emoji is one of the seven of the table,
\* registered or not; the match that ends a wait is the action of the table.
TableSymbolsMatch ==
    /\ []( message = "target"
           => \A reaction \in [emoji : Emojis, message : Messages],
                 user \in Users \cup {"None"} :
                 react_check(reaction, user)
                   <=> /\ user = "author"
                       /\ reaction.message = "target"
                       /\ reaction.emoji \in
                            { "U+23EE", "U+25C0", "U+25B6", "U+23ED",
                              "U+1F522", "U+23F9", "U+2139" } )
    /\ [][ pc = "wait" /\ pc' = "remove"
           => match' \in { "first_page", "previous_page", "next_page",
                           "last_page", "numbered_page", "stop_pages",
                           "show_help" } ]_vars

\* In a two-page session the last-page symbol, which the session did not
\* register, has been matched on the render target.
JumpSymbolMatchedWithTwoPages ==
    /\ maximum_pages = 2
    /\ pc = "remove" /\ match = "last_page"
    /\ message = "target" /\ channel["target"] = "live"
    /\ first_pc = "done" /\ Len(reactions) = 5
    /\ \A i \in 1..Len(reactions) : reactions[i] # "U+23ED"

\* C15: in a multi-page session that holds every permission, as long as
\* the first render has not sent the render target no signal has been
\* matched and no action runs, so nothing edits or deletes a message; the
\* deletion of stop is never requested on the command message, and once
\* paginate() has returned after a stop no render target is left in the
\* channel.
FirstRenderDoesNotRace ==
    ( /\ Len(entries) > per_page
      /\ permissions.embed_links
      /\ permissions.add_reactions /\ permissions.read_message_history )
    => /\ channel["target"] = "unsent"
            => /\ match = "none"
               /\ pc \in {"constructed", "wait", "clear", "done"}
       /\ stop_requested # "command"
       /\ channel["command"] = "live"
       /\ stop_requested # "none" /\ pc = "done" => channel["target"] # "live"

\* C16: paginate() is one coroutine, at one position: self.match is
\* written only by the signal that ends its wait, stays as it is from
\* there until the loop waits again, and the action that starts when
\* remove_reaction is over is the one self.match names; the loop leaves a
\* wait only by a match or by its timeout, and comes back to it only from
\* the end of an action.
ActionsSerialized ==
    /\ [][ match' # match => pc = "wait" /\ pc' = "remove" ]_vars
    /\ [][ pc = "wait" /\ pc' # "wait" => pc' \in {"remove", "clear"} ]_vars
    /\ [][ pc # "wait" /\ pc' = "wait"
           => pc \in {"constructed", "remove", "edit", "help_edit", "cleanup"} ]_vars
    /\ [][ pc = "remove" /\ pc' # "remove"
           => \/ match = "first_page" /\ pc' = "edit" /\ current_page' = 1
              \/ match = "last_page" /\ pc' = "edit"
                    /\ current_page' = maximum_pages
              \/ match = "next_page" /\ pc' \in {"edit", "wait"}
                    /\ current_page' \in {current_page, current_page + 1}
              \/ match = "previous_page" /\ pc' \in {"edit", "wait"}
                    /\ current_page' \in {current_page, current_page - 1}
              \/ match = "numbered_page" /\ pc' = "ask"
              \/ match = "stop_pages" /\ pc' = "delete"
              \/ match = "show_help" /\ pc' = "help_edit" ]_vars

\* The second action of a session is being dispatched: the number prompt,
\* after a jump to the last of three pages.
SecondActionDispatched ==
    /\ maximum_pages = 3
    /\ pc = "ask" /\ match = "numbered_page"
    /\ current_page = 3 /\ shown = PageEmbed(3, FALSE)

\* C17: in a session that holds every permission, once stop_pages has
\* returned the render target is deleted, paginating is false and
\* paginate() has returned; from then on the loop waits for nothing,
\* matches nothing and runs no action.
StopIsTerminal ==
    /\ []( ( /\ permissions.add_reactions
             /\ permissions.read_message_history
             /\ stop_requested # "none" /\ pc \notin {"delete", "raised"} )
           => /\ channel["target"] = "deleted"
              /\ ~paginating
              /\ pc = "done" /\ timer = 0 )
    /\ [][ stop_requested # "none" /\ pc \notin {"delete", "raised"}
           => pc' = pc /\ match' = match /\ ~paginating' ]_vars

\* C18: the timeout of the loop is counted per wait.  Every wait the loop
\* enters, the first one and the one after each action, starts with the
\* full 120 seconds; they run down only while the loop waits, 30 seconds
\* a tick; the timeout fires only from a wait whose 120 seconds are used
\* up; and the 30 seconds of the number prompt run on a timeout of their
\* own, which the wait that follows does not inherit.
FreshTimeoutPerWait ==
    /\ [](pc = "wait" => timer \in 0..WaitTicks)
    /\ [](pc = "reply_wait" => timer \in 0..ReplyTicks)
    /\ [](pc \notin {"wait", "reply_wait"} => timer = 0)
    /\ [][ pc # "wait" /\ pc' = "wait" => timer' = WaitTicks ]_vars
    /\ [][ pc = "wait" /\ pc' = "wait" => timer' \in {timer, timer - 1} ]_vars
    /\ [][ ~timed_out /\ timed_out' => pc = "wait" /\ timer = 0 ]_vars
    /\ [][ pc = "reply_wait" /\ pc' = "timeout_send" => timer = 0 ]_vars

\* The number prompt has used up its 30 seconds, sent its notice and
\* cleaned up; the wait the loop is back in has its full 120 seconds.
FullWaitAfterPromptTimeout ==
    /\ pc = "wait" /\ match = "numbered_page"
    /\ channel["timeout_notice"] # "unsent"
    /\ timer = WaitTicks
    /\ paginating

\* C19: show_help leaves current_page as it is; a restoration that fires
\* while paginating is set edits the render target to the page that is
\* current_page then; and in a session that holds every permission,
\* whenever paginate() is in no action (it waits, has returned or has
\* raised), no edit is in flight and the live render target shows a page,
\* that page is current_page.
DisplayedPageIsCurrent ==
    /\ [][ match = "show_help" /\ pc \in {"remove", "help_edit"}
           => current_page' = current_page ]_vars
    /\ [][ sleeping' < sleeping /\ paginating
           => /\ edits' = edits (+) SetToBag({PageEmbed(current_page, FALSE)})
              /\ current_page' = current_page ]_vars
    /\ []( ( /\ permissions.add_reactions /\ permissions.read_message_history
             /\ pc \in {"wait", "done", "raised"}
             /\ edits = EmptyBag
             /\ channel["target"] = "live"
             /\ shown.footer[1] = "Page" )
           => shown.footer[2] = current_page )

\* C20, as what is true once paginate() is over: in a session that holds
\* every permission, paginate() ends by returning, with paginating false,
\* and a number prompt it opened has run its cleanup (its to_delete is
\* gone with it).
SessionEndsStopped ==
    ( /\ permissions.add_reactions /\ permissions.read_message_history
      /\ first_pc # "none"
      /\ pc \in {"done", "raised"} )
    => /\ pc = "done"
       /\ ~paginating
       /\ to_delete = <<>>

====
